---- MODULE Spec2Model ----
(***************************************************************************)
(* The appointment scheduling and lifecycle state machine of the           *)
(* telehealth API (AppointmentsService): create, confirm, decline, cancel, *)
(* complete and addReview, each request a sequence of separate storage     *)
(* round trips against the shared store, several requests in flight.       *)
(***************************************************************************)
EXTENDS Integers, Sequences, FiniteSets, Bags, TLC

VARIABLES
    appointments,   \* the appointment table: a sequence, id = index
    reviews,        \* the review table: a sequence of review records
    therapists,     \* the therapist table: profile id -> aggregate stats
    now,            \* the wall clock (Date.now()), in ms
    req,            \* per request slot: the handler's position and locals
    sent,           \* notifications handed to the notification sender
    calls,          \* the number of requests received so far
    paymentMethods  \* the payment method table: a sequence, oldest first

vars == <<appointments, reviews, therapists, now, req, sent, calls, paymentMethods>>

----------------------------------------------------------------------------
(* Bounds of the model *)

\* at most this many appointment rows are ever inserted
MaxAppointments == 2

\* at most this many requests are received in a behaviour: when they are
\* handled one at a time, and when they run concurrently
MaxCalls == 4
MaxConcurrentCalls == 3

\* at most this many addReview requests are received in a behaviour that
\* starts from completed appointments: one at a time, and concurrently
MaxReviewCalls == 4
MaxConcurrentReviewCalls == 2

\* at most this many availability windows per therapist
MaxWindows == 2

\* request slots: requests that can be in flight at the same time
Procs == {1, 2}

\* one hour in ms, the divisor of hoursUntilAppointment
HourMs == 1000 * 60 * 60

\* the hour thresholds of the cancellation policy
FullRefundHours == 24
HalfRefundHours == 2

\* start times a booking request may ask for (ms since the model's epoch)
Slots == {2 * HourMs + 1, 30 * HourMs}

\* values the clock takes while one request at a time is handled: against the
\* two slots they give the distances 30h, 24h+1ms, 24h, 2h+1ms, 2h and a
\* start already in the past
Instants == {0, 1, 6 * HourMs - 1, 6 * HourMs}

\* values the clock takes while requests run concurrently
ConcurrentInstants == {0, 1}

\* user accounts; u1 and u2 are the accounts of the two therapists, p1 books
Patients == {"p1"}
Bookers == {"p1"}
TherapistUsers == {"u1", "u2"}
Users == Patients \cup TherapistUsers

\* therapist profile ids (distinct from the user ids) and their user account
TherapistIds == {"t1", "t2"}
TherapistUserId(t) == IF t = "t1" THEN "u1" ELSE "u2"

\* a therapist id no row of the therapist table has
UnknownTherapistId == "t0"

Durations == {60}
Amounts == {15000}
Timezones == {"America/New_York"}
Reasons == {"Emergency"}
SessionNotes == {"notes"}
SerialProcs == {1}
Ratings == {1, 5}

\* the ratings and the callers of the addReview requests of those behaviours
ReviewRatings == {1, 3, 4, 5}
ReviewCallers == {"p1", "u1"}

\* the therapists of the completed appointments those behaviours start from
CompletedTherapists == <<"t1", "t1", "t1", "t1", "t2">>

\* calendar dates a slot query may name, as days since 1970-01-01
Dates == {0, 1, 2}

\* availability windows: day of week, start and end as hours of the day
Windows == [dayOfWeek : {4, 5}, startTime : {9, 10}, endTime : {11}, isActive : BOOLEAN]

\* blocked slots: a range of instants, here the working hours of date 0
BlockedSlots == {[startAt |-> 9 * HourMs, endAt |-> 11 * HourMs]}

\* starts of the appointments a slot query may find stored
BookedStarts == {9 * HourMs, 10 * HourMs}

\* a nullable column: <<>> is null, <<v>> holds v
Null == <<>>
Some(v) == <<v>>
IsSet(x) == x # <<>>
Val(x) == x[1]

\* optional arguments: left out, or given
OptionalReasons == {Null} \cup {Some(r) : r \in Reasons}
OptionalSessionNotes == {Null} \cup {Some(n) : n \in SessionNotes}

----------------------------------------------------------------------------
(* The store *)

ActiveStatuses == {"PENDING", "CONFIRMED"}
TerminalStatuses == {"COMPLETED", "CANCELLED", "NO_SHOW"}
AppointmentStatus == ActiveStatuses \cup TerminalStatuses

\* ids a request may name: the stored ones and one that is never stored
RequestIds == 1..(MaxAppointments + 1)

Exists(id) == id \in 1..Len(appointments)

\* Conflicting counting the appointments of every status
ConflictingAnyStatus(therapistId, scheduledAt) ==
    {i \in 1..Len(appointments) :
        /\ appointments[i].therapistId = therapistId
        /\ appointments[i].scheduledAt = scheduledAt}

\* prisma.appointment.findFirst of create: a non-terminal appointment of the
\* therapist at exactly the requested start
Conflicting(therapistId, scheduledAt) ==
    {i \in 1..Len(appointments) :
        /\ appointments[i].therapistId = therapistId
        /\ appointments[i].scheduledAt = scheduledAt
        /\ appointments[i].status \in {"PENDING", "CONFIRMED"}}

\* NewAppointment ignoring the type of the request
NewAppointmentScheduledOnly(data) ==
    [userId |-> data.userId,
     therapistId |-> data.therapistId,
     scheduledAt |-> data.scheduledAt,
     duration |-> data.duration,
     timezone |-> data.timezone,
     type |-> "SCHEDULED",
     bookingNotes |-> data.bookingNotes,
     amount |-> data.amount,
     status |-> "PENDING",
     confirmedAt |-> Null,
     completedAt |-> Null,
     cancelledAt |-> Null,
     cancellationReason |-> Null,
     sessionNotes |-> Null]

\* the row prisma.appointment.create inserts
NewAppointment(data) ==
    [userId |-> data.userId,
     therapistId |-> data.therapistId,
     scheduledAt |-> data.scheduledAt,
     duration |-> data.duration,
     timezone |-> data.timezone,
     type |-> IF IsSet(data.type) THEN Val(data.type) ELSE "SCHEDULED",
     bookingNotes |-> data.bookingNotes,
     amount |-> data.amount,
     status |-> "PENDING",
     confirmedAt |-> Null,
     completedAt |-> Null,
     cancelledAt |-> Null,
     cancellationReason |-> Null,
     sessionNotes |-> Null]

----------------------------------------------------------------------------
(* Request slots *)

Idle == [pc |-> "idle"]

\* a request that has returned: its arguments and what its caller receives,
\* an exception thrown or the value returned
Threw(op, args, exception) ==
    [pc |-> "done", op |-> op, args |-> args, outcome |-> exception, value |-> Null]
Returned(op, args, value) ==
    [pc |-> "done", op |-> op, args |-> args, outcome |-> "ok", value |-> Some(value)]

\* an update that stores the columns of data and resets the amount and the
\* duration
ApplyUpdateReplace(row, data) ==
    [f \in DOMAIN row |-> IF f \in DOMAIN data THEN data[f]
                          ELSE IF f \in {"amount", "duration"} THEN 0
                          ELSE row[f]]

\* prisma.appointment.update({where: {id}, data}): the row with the columns
\* of data overwritten, whatever the row holds at the time of the write
ApplyUpdate(row, data) ==
    [f \in DOMAIN row |-> IF f \in DOMAIN data THEN data[f] ELSE row[f]]

Init ==
    /\ appointments = <<>>
    /\ reviews = <<>>
    /\ therapists = [t \in TherapistIds |-> [averageRating |-> <<0, 1>>, totalReviews |-> 0]]
    /\ now = 0
    /\ req = [p \in Procs |-> Idle]
    /\ sent = EmptyBag
    /\ calls = 0
    /\ paymentMethods = <<>>

\* the clock advances to a later instant of I
Tick(I) ==
    /\ \E t \in I : t > now /\ now' = t
    /\ UNCHANGED <<appointments, reviews, therapists, req, sent, calls, paymentMethods>>

\* the caller has its response; the slot is free for the next request
Respond(p) ==
    /\ req[p].pc = "done"
    /\ req' = [req EXCEPT ![p] = Idle]
    /\ UNCHANGED <<appointments, reviews, therapists, now, sent, calls, paymentMethods>>

----------------------------------------------------------------------------
(* create *)

CreateData ==
    [userId : Bookers,
     therapistId : TherapistIds \cup {UnknownTherapistId},
     scheduledAt : Slots,
     duration : Durations,
     timezone : Timezones,
     type : {Null},
     bookingNotes : {Null},
     amount : Amounts]

\* booking requests with the optional type and notes given or left out
BookingData ==
    [userId : Bookers,
     therapistId : TherapistIds \cup {UnknownTherapistId},
     scheduledAt : Slots,
     duration : Durations,
     timezone : Timezones,
     type : {Null, Some("INSTANT")},
     bookingNotes : {Null, Some("first session")},
     amount : Amounts \cup {20000}]

\* booking requests for sessions of 30 and 90 minutes starting at 14:00 and
\* at 14:15 of one day
OverlapData ==
    [userId : Bookers,
     therapistId : TherapistIds,
     scheduledAt : {14 * HourMs, 14 * HourMs + 15 * 60 * 1000},
     duration : {30, 90},
     timezone : Timezones,
     type : {Null},
     bookingNotes : {Null},
     amount : Amounts]

\* creates that have passed the therapist lookup and have not inserted yet
CreatesInFlight ==
    Cardinality({q \in Procs : req[q].pc \in {"findConflict", "insert"}})

\* create, up to the therapist lookup
CreateFindTherapist(p, data) ==
    /\ req[p].pc = "idle"
    /\ calls' = calls + 1
    /\ Len(appointments) + CreatesInFlight < MaxAppointments
    /\ req' = [req EXCEPT ![p] =
                 IF data.therapistId \notin DOMAIN therapists
                 THEN Threw("create", data, "NotFoundException")
                 ELSE [pc |-> "findConflict", op |-> "create", data |-> data]]
    /\ UNCHANGED <<appointments, reviews, therapists, now, sent, paymentMethods>>

\* CreateFindConflict looking for an active appointment of the therapist whose
\* interval overlaps the requested one
CreateFindConflictOverlap(p) ==
    /\ req[p].pc = "findConflict"
    /\ req' = [req EXCEPT ![p] =
                 IF \E i \in 1..Len(appointments) :
                        /\ appointments[i].therapistId = req[p].data.therapistId
                        /\ appointments[i].status \in {"PENDING", "CONFIRMED"}
                        /\ appointments[i].scheduledAt
                              < req[p].data.scheduledAt + req[p].data.duration * 60 * 1000
                        /\ req[p].data.scheduledAt
                              < appointments[i].scheduledAt + appointments[i].duration * 60 * 1000
                 THEN Threw("create", req[p].data, "BadRequestException")
                 ELSE [pc |-> "insert", op |-> "create", data |-> req[p].data]]
    /\ UNCHANGED <<appointments, reviews, therapists, now, sent, calls, paymentMethods>>

\* CreateFindConflict looking for PENDING appointments only
CreateFindConflictPendingOnly(p) ==
    /\ req[p].pc = "findConflict"
    /\ req' = [req EXCEPT ![p] =
                 IF \E i \in 1..Len(appointments) :
                        /\ appointments[i].therapistId = req[p].data.therapistId
                        /\ appointments[i].scheduledAt = req[p].data.scheduledAt
                        /\ appointments[i].status = "PENDING"
                 THEN Threw("create", req[p].data, "BadRequestException")
                 ELSE [pc |-> "insert", op |-> "create", data |-> req[p].data]]
    /\ UNCHANGED <<appointments, reviews, therapists, now, sent, calls, paymentMethods>>

\* create, the conflict lookup
CreateFindConflict(p) ==
    /\ req[p].pc = "findConflict"
    /\ req' = [req EXCEPT ![p] =
                 IF Conflicting(req[p].data.therapistId, req[p].data.scheduledAt) # {}
                 THEN Threw("create", req[p].data, "BadRequestException")
                 ELSE [pc |-> "insert", op |-> "create", data |-> req[p].data]]
    /\ UNCHANGED <<appointments, reviews, therapists, now, sent, calls, paymentMethods>>

\* create, the insert
CreateInsert(p) ==
    /\ req[p].pc = "insert"
    /\ appointments' = Append(appointments, NewAppointment(req[p].data))
    /\ req' = [req EXCEPT ![p] =
                 [pc |-> "notifyCreate", op |-> "create", data |-> req[p].data,
                  id |-> Len(appointments) + 1,
                  appointment |-> NewAppointment(req[p].data)]]
    /\ UNCHANGED <<reviews, therapists, now, sent, calls, paymentMethods>>

\* create, the booking-request notification to the therapist's user
CreateNotify(p) ==
    /\ req[p].pc = "notifyCreate"
    /\ LET id == req[p].id
           a == req[p].appointment
       IN /\ sent' = sent (+) SetToBag({[kind |-> "BOOKING_REQUEST",
                                         to |-> TherapistUserId(a.therapistId),
                                         appointmentId |-> id]})
          /\ req' = [req EXCEPT ![p] =
                       Returned("create", req[p].data, [id |-> id, row |-> a])]
    /\ UNCHANGED <<appointments, reviews, therapists, now, calls, paymentMethods>>


----------------------------------------------------------------------------
(* confirm *)

\* the notification a handler hands to the sender
Notification(kind, to, id) == [kind |-> kind, to |-> to, appointmentId |-> id]

\* what a handler returns for an updated appointment
Updated(id, row) == [id |-> id, row |-> row]

\* ConfirmCheck without the check of the status
ConfirmCheckAnyStatus(id, userId) ==
    IF ~Exists(id) THEN "NotFoundException"
    ELSE IF TherapistUserId(appointments[id].therapistId) # userId THEN "ForbiddenException"
    ELSE "ok"

\* the checks of confirm on the appointment it read: the exception thrown,
\* or "ok"
ConfirmCheck(id, userId) ==
    IF ~Exists(id) THEN "NotFoundException"
    ELSE IF TherapistUserId(appointments[id].therapistId) # userId THEN "ForbiddenException"
    ELSE IF appointments[id].status # "PENDING" THEN "BadRequestException"
    ELSE "ok"

\* the columns confirm writes
ConfirmData(date) == [status |-> "CONFIRMED", confirmedAt |-> Some(date)]

\* ConfirmFind writing its columns before it checks the status
ConfirmFindWriteFirst(p, id, userId) ==
    /\ req[p].pc = "idle"
    /\ calls' = calls + 1
    /\ LET args == [id |-> id, userId |-> userId]
           check == ConfirmCheck(id, userId)
       IN /\ req' = [req EXCEPT ![p] =
                 IF check # "ok"
                 THEN Threw("confirm", args, check)
                 ELSE [pc |-> "updateConfirm", op |-> "confirm", args |-> args,
                       appointment |-> appointments[id],
                       data |-> ConfirmData(now)]]
          /\ appointments' =
                 IF check = "BadRequestException"
                 THEN [appointments EXCEPT ![id] = ApplyUpdate(@, ConfirmData(now))]
                 ELSE appointments
    /\ UNCHANGED <<reviews, therapists, now, sent, paymentMethods>>

\* confirm, the read of the appointment and the checks on what was read
ConfirmFind(p, id, userId) ==
    /\ req[p].pc = "idle"
    /\ calls' = calls + 1
    /\ LET args == [id |-> id, userId |-> userId]
           check == ConfirmCheck(id, userId)
       IN req' = [req EXCEPT ![p] =
            IF check # "ok"
            THEN Threw("confirm", args, check)
            ELSE [pc |-> "updateConfirm", op |-> "confirm", args |-> args,
                  appointment |-> appointments[id],
                  data |-> ConfirmData(now)]]
    /\ UNCHANGED <<appointments, reviews, therapists, now, sent, paymentMethods>>

\* confirm, the update
ConfirmUpdate(p) ==
    /\ req[p].pc = "updateConfirm"
    /\ LET id == req[p].args.id
           updatedAppointment == ApplyUpdate(appointments[id], req[p].data)
       IN /\ appointments' = [appointments EXCEPT ![id] = updatedAppointment]
          /\ req' = [req EXCEPT ![p] =
                       [pc |-> "notifyConfirm", op |-> "confirm", args |-> req[p].args,
                        appointment |-> req[p].appointment,
                        updatedAppointment |-> updatedAppointment]]
    /\ UNCHANGED <<reviews, therapists, now, sent, calls, paymentMethods>>

\* confirm, the booking-confirmed notification to the patient
ConfirmNotify(p) ==
    /\ req[p].pc = "notifyConfirm"
    /\ sent' = sent (+) SetToBag({Notification("BOOKING_CONFIRMED",
                                               req[p].appointment.userId, req[p].args.id)})
    /\ req' = [req EXCEPT ![p] =
                 Returned("confirm", req[p].args,
                          Updated(req[p].args.id, req[p].updatedAppointment))]
    /\ UNCHANGED <<appointments, reviews, therapists, now, calls, paymentMethods>>

----------------------------------------------------------------------------
(* decline *)

\* the checks of decline on the appointment it read
DeclineCheck(id, userId) ==
    IF ~Exists(id) THEN "NotFoundException"
    ELSE IF TherapistUserId(appointments[id].therapistId) # userId THEN "ForbiddenException"
    ELSE IF appointments[id].status # "PENDING" THEN "BadRequestException"
    ELSE "ok"

\* DeclineData without the default reason
DeclineDataNoDefault(reason, date) ==
    [status |-> "CANCELLED", cancellationReason |-> reason, cancelledAt |-> Some(date)]

\* the columns decline writes (reason || 'Declined by therapist')
DeclineData(reason, date) ==
    [status |-> "CANCELLED",
     cancellationReason |-> IF IsSet(reason) THEN reason ELSE Some("Declined by therapist"),
     cancelledAt |-> Some(date)]

\* decline, the read of the appointment and the checks on what was read
DeclineFind(p, id, userId, reason) ==
    /\ req[p].pc = "idle"
    /\ calls' = calls + 1
    /\ LET args == [id |-> id, userId |-> userId, reason |-> reason]
           check == DeclineCheck(id, userId)
       IN req' = [req EXCEPT ![p] =
            IF check # "ok"
            THEN Threw("decline", args, check)
            ELSE [pc |-> "updateDecline", op |-> "decline", args |-> args,
                  appointment |-> appointments[id],
                  data |-> DeclineData(reason, now)]]
    /\ UNCHANGED <<appointments, reviews, therapists, now, sent, paymentMethods>>

\* decline, the update
DeclineUpdate(p) ==
    /\ req[p].pc = "updateDecline"
    /\ LET id == req[p].args.id
           updatedAppointment == ApplyUpdate(appointments[id], req[p].data)
       IN /\ appointments' = [appointments EXCEPT ![id] = updatedAppointment]
          /\ req' = [req EXCEPT ![p] =
                       [pc |-> "notifyDecline", op |-> "decline", args |-> req[p].args,
                        appointment |-> req[p].appointment,
                        updatedAppointment |-> updatedAppointment]]
    /\ UNCHANGED <<reviews, therapists, now, sent, calls, paymentMethods>>

\* decline, the booking-declined notification to the patient
DeclineNotify(p) ==
    /\ req[p].pc = "notifyDecline"
    /\ sent' = sent (+) SetToBag({Notification("BOOKING_DECLINED",
                                               req[p].appointment.userId, req[p].args.id)})
    /\ req' = [req EXCEPT ![p] =
                 Returned("decline", req[p].args,
                          Updated(req[p].args.id, req[p].updatedAppointment))]
    /\ UNCHANGED <<appointments, reviews, therapists, now, calls, paymentMethods>>

----------------------------------------------------------------------------
(* cancel *)

\* RefundPercentage with the boundaries in the upper tier
RefundPercentageInclusive(scheduledAt, nowMs) ==
    LET msUntilAppointment == scheduledAt - nowMs
    IN IF msUntilAppointment >= FullRefundHours * HourMs THEN 100
       ELSE IF msUntilAppointment >= HalfRefundHours * HourMs THEN 50
       ELSE 0

\* the refund percentage of the cancellation policy. The code compares
\* hoursUntilAppointment = (scheduledAt - now) / HourMs with 24 and with 2;
\* over the integers that is the comparison of the ms with 24 and 2 hours
RefundPercentage(scheduledAt, nowMs) ==
    LET msUntilAppointment == scheduledAt - nowMs
    IN IF msUntilAppointment > FullRefundHours * HourMs THEN 100
       ELSE IF msUntilAppointment > HalfRefundHours * HourMs THEN 50
       ELSE 0

\* CancelCheck believing the isTherapist flag
CancelCheckTrustsFlag(id, userId, isTherapist) ==
    IF ~Exists(id) THEN "NotFoundException"
    ELSE IF ~isTherapist /\ appointments[id].userId # userId THEN "ForbiddenException"
    ELSE IF appointments[id].status = "COMPLETED" \/ appointments[id].status = "CANCELLED"
    THEN "BadRequestException"
    ELSE "ok"

\* CancelCheck with the status check of decline
CancelCheckPendingOnly(id, userId, isTherapist) ==
    IF ~Exists(id) THEN "NotFoundException"
    ELSE IF ~isTherapist /\ appointments[id].userId # userId THEN "ForbiddenException"
    ELSE IF isTherapist /\ TherapistUserId(appointments[id].therapistId) # userId
    THEN "ForbiddenException"
    ELSE IF appointments[id].status # "PENDING" THEN "BadRequestException"
    ELSE "ok"

\* the checks of cancel on the appointment it read
CancelCheck(id, userId, isTherapist) ==
    IF ~Exists(id) THEN "NotFoundException"
    ELSE IF ~isTherapist /\ appointments[id].userId # userId THEN "ForbiddenException"
    ELSE IF isTherapist /\ TherapistUserId(appointments[id].therapistId) # userId
    THEN "ForbiddenException"
    ELSE IF appointments[id].status = "COMPLETED" \/ appointments[id].status = "CANCELLED"
    THEN "BadRequestException"
    ELSE "ok"

\* the columns cancel writes
CancelData(reason, date) ==
    [status |-> "CANCELLED", cancellationReason |-> Some(reason), cancelledAt |-> Some(date)]

\* what cancel returns: the updated row; refundPercentage stays a local
CancelResult(id, updatedAppointment, refundPercentage) ==
    Updated(id, updatedAppointment)

\* cancel, the read of the appointment, the checks on what was read and the
\* refund computation
CancelFind(p, id, userId, reason, isTherapist) ==
    /\ req[p].pc = "idle"
    /\ calls' = calls + 1
    /\ LET args == [id |-> id, userId |-> userId, reason |-> reason,
                    isTherapist |-> isTherapist]
           check == CancelCheck(id, userId, isTherapist)
       IN req' = [req EXCEPT ![p] =
            IF check # "ok"
            THEN Threw("cancel", args, check)
            ELSE [pc |-> "updateCancel", op |-> "cancel", args |-> args,
                  appointment |-> appointments[id],
                  refundPercentage |-> RefundPercentage(appointments[id].scheduledAt, now),
                  data |-> CancelData(reason, now)]]
    /\ UNCHANGED <<appointments, reviews, therapists, now, sent, paymentMethods>>

\* CancelUpdate deleting the row instead of marking it CANCELLED
CancelUpdateDeletes(p) ==
    /\ req[p].pc = "updateCancel"
    /\ LET id == req[p].args.id
           updatedAppointment == ApplyUpdate(appointments[id], req[p].data)
       IN /\ appointments' = SubSeq(appointments, 1, id - 1)
                                \o SubSeq(appointments, id + 1, Len(appointments))
          /\ req' = [req EXCEPT ![p] =
                       [pc |-> "notifyCancel", op |-> "cancel", args |-> req[p].args,
                        appointment |-> req[p].appointment,
                        refundPercentage |-> req[p].refundPercentage,
                        data |-> req[p].data,
                        updatedAppointment |-> updatedAppointment]]
    /\ UNCHANGED <<reviews, therapists, now, sent, calls, paymentMethods>>

\* cancel, the update
CancelUpdate(p) ==
    /\ req[p].pc = "updateCancel"
    /\ LET id == req[p].args.id
           updatedAppointment == ApplyUpdate(appointments[id], req[p].data)
       IN /\ appointments' = [appointments EXCEPT ![id] = updatedAppointment]
          /\ req' = [req EXCEPT ![p] =
                       [pc |-> "notifyCancel", op |-> "cancel", args |-> req[p].args,
                        appointment |-> req[p].appointment,
                        refundPercentage |-> req[p].refundPercentage,
                        data |-> req[p].data,
                        updatedAppointment |-> updatedAppointment]]
    /\ UNCHANGED <<reviews, therapists, now, sent, calls, paymentMethods>>

\* CancelNotify notifying the patient whoever cancelled
CancelNotifyPatientAlways(p) ==
    /\ req[p].pc = "notifyCancel"
    /\ sent' = sent (+) SetToBag({Notification("APPOINTMENT_CANCELLED",
                                               req[p].appointment.userId, req[p].args.id)})
    /\ req' = [req EXCEPT ![p] =
                 Returned("cancel", req[p].args,
                          CancelResult(req[p].args.id, req[p].updatedAppointment,
                                       req[p].refundPercentage))]
    /\ UNCHANGED <<appointments, reviews, therapists, now, calls, paymentMethods>>

\* cancel, the appointment-cancelled notification to the other party
CancelNotify(p) ==
    /\ req[p].pc = "notifyCancel"
    /\ LET appointment == req[p].appointment
           to == IF req[p].args.isTherapist
                 THEN appointment.userId
                 ELSE TherapistUserId(appointment.therapistId)
       IN sent' = sent (+) SetToBag({Notification("APPOINTMENT_CANCELLED",
                                                  to, req[p].args.id)})
    /\ req' = [req EXCEPT ![p] =
                 Returned("cancel", req[p].args,
                          CancelResult(req[p].args.id, req[p].updatedAppointment,
                                       req[p].refundPercentage))]
    /\ UNCHANGED <<appointments, reviews, therapists, now, calls, paymentMethods>>

----------------------------------------------------------------------------
(* complete *)

\* the checks of complete on the appointment it read
CompleteCheck(id, userId) ==
    IF ~Exists(id) THEN "NotFoundException"
    ELSE IF TherapistUserId(appointments[id].therapistId) # userId THEN "ForbiddenException"
    ELSE "ok"

\* CompleteData marking a session completed without notes as a no-show
CompleteDataNoShow(sessionNotes, date) ==
    IF IsSet(sessionNotes)
    THEN [status |-> "COMPLETED", completedAt |-> Some(date), sessionNotes |-> sessionNotes]
    ELSE [status |-> "NO_SHOW", completedAt |-> Some(date)]

\* the columns complete writes (sessionNotes left undefined is a column the
\* update does not write)
CompleteData(sessionNotes, date) ==
    IF IsSet(sessionNotes)
    THEN [status |-> "COMPLETED", completedAt |-> Some(date), sessionNotes |-> sessionNotes]
    ELSE [status |-> "COMPLETED", completedAt |-> Some(date)]

\* complete, the read of the appointment and the checks on what was read
CompleteFind(p, id, userId, sessionNotes) ==
    /\ req[p].pc = "idle"
    /\ calls' = calls + 1
    /\ LET args == [id |-> id, userId |-> userId, sessionNotes |-> sessionNotes]
           check == CompleteCheck(id, userId)
       IN req' = [req EXCEPT ![p] =
            IF check # "ok"
            THEN Threw("complete", args, check)
            ELSE [pc |-> "updateComplete", op |-> "complete", args |-> args,
                  data |-> CompleteData(sessionNotes, now)]]
    /\ UNCHANGED <<appointments, reviews, therapists, now, sent, paymentMethods>>

\* complete, the update, whose result the handler returns
CompleteUpdate(p) ==
    /\ req[p].pc = "updateComplete"
    /\ LET id == req[p].args.id
           updatedAppointment == ApplyUpdate(appointments[id], req[p].data)
       IN /\ appointments' = [appointments EXCEPT ![id] = updatedAppointment]
          /\ req' = [req EXCEPT ![p] =
                       Returned("complete", req[p].args, Updated(id, updatedAppointment))]
    /\ UNCHANGED <<reviews, therapists, now, sent, calls, paymentMethods>>

----------------------------------------------------------------------------
(* addReview *)

RECURSIVE Gcd(_, _)
Gcd(a, b) == IF b = 0 THEN a ELSE Gcd(b, a % b)

\* a Float column holding the quotient n / d, as the fraction in lowest terms
Fraction(n, d) == LET g == Gcd(n, d) IN <<n \div g, d \div g>>

\* the reviews of a therapist, by position in the table
ReviewsOf(therapistId) ==
    {i \in 1..Len(reviews) : reviews[i].therapistId = therapistId}

RECURSIVE SumRatings(_)
SumRatings(S) ==
    IF S = {} THEN 0
    ELSE LET i == CHOOSE j \in S : TRUE
         IN reviews[i].rating + SumRatings(S \ {i})

\* Aggregate over the reviews of every therapist
AggregateAllTherapists(therapistId) ==
    LET S == 1..Len(reviews)
    IN [count |-> Cardinality(S),
        avg |-> IF S = {} THEN Null ELSE Some(Fraction(SumRatings(S), Cardinality(S)))]

\* prisma.review.aggregate: _count and _avg.rating (null over no rows)
Aggregate(therapistId) ==
    LET S == ReviewsOf(therapistId)
    IN [count |-> Cardinality(S),
        avg |-> IF S = {} THEN Null ELSE Some(Fraction(SumRatings(S), Cardinality(S)))]

\* Review.appointmentId is unique (the one-to-one relation Appointment.review)
ReviewExistsFor(appointmentId) ==
    \E i \in 1..Len(reviews) : reviews[i].appointmentId = appointmentId

\* AddReviewCheck without the check of the status
AddReviewCheckAnyStatus(appointmentId, userId) ==
    IF ~Exists(appointmentId) THEN "NotFoundException"
    ELSE IF appointments[appointmentId].userId # userId THEN "ForbiddenException"
    ELSE "ok"

\* the checks of addReview on the appointment it read
AddReviewCheck(appointmentId, userId) ==
    IF ~Exists(appointmentId) THEN "NotFoundException"
    ELSE IF appointments[appointmentId].userId # userId THEN "ForbiddenException"
    ELSE IF appointments[appointmentId].status # "COMPLETED" THEN "BadRequestException"
    ELSE "ok"

\* addReview, the read of the appointment and the checks on what was read
AddReviewFind(p, appointmentId, userId, rating) ==
    /\ req[p].pc = "idle"
    /\ calls' = calls + 1
    /\ LET args == [id |-> appointmentId, userId |-> userId, rating |-> rating]
           check == AddReviewCheck(appointmentId, userId)
       IN req' = [req EXCEPT ![p] =
            IF check # "ok"
            THEN Threw("addReview", args, check)
            ELSE [pc |-> "createReview", op |-> "addReview", args |-> args,
                  therapistId |-> appointments[appointmentId].therapistId]]
    /\ UNCHANGED <<appointments, reviews, therapists, now, sent, paymentMethods>>

\* addReview, the insert of the review
AddReviewCreate(p) ==
    /\ req[p].pc = "createReview"
    /\ LET review == [userId |-> req[p].args.userId,
                      therapistId |-> req[p].therapistId,
                      appointmentId |-> req[p].args.id,
                      rating |-> req[p].args.rating]
       IN IF ReviewExistsFor(req[p].args.id)
          THEN /\ req' = [req EXCEPT ![p] =
                            Threw("addReview", req[p].args, "UniqueConstraintError")]
               /\ UNCHANGED reviews
          ELSE /\ reviews' = Append(reviews, review)
               /\ req' = [req EXCEPT ![p] =
                            [pc |-> "aggregate", op |-> "addReview", args |-> req[p].args,
                             therapistId |-> req[p].therapistId, review |-> review]]
    /\ UNCHANGED <<appointments, therapists, now, sent, calls, paymentMethods>>

\* addReview, the aggregate over the therapist's reviews
AddReviewAggregate(p) ==
    /\ req[p].pc = "aggregate"
    /\ req' = [req EXCEPT ![p] =
                 [pc |-> "updateTherapist", op |-> "addReview", args |-> req[p].args,
                  therapistId |-> req[p].therapistId, review |-> req[p].review,
                  stats |-> Aggregate(req[p].therapistId)]]
    /\ UNCHANGED <<appointments, reviews, therapists, now, sent, calls, paymentMethods>>

\* addReview, the update of the therapist's aggregates
AddReviewUpdateTherapist(p) ==
    /\ req[p].pc = "updateTherapist"
    /\ LET stats == req[p].stats
       IN therapists' = [therapists EXCEPT ![req[p].therapistId] =
                           [averageRating |-> IF IsSet(stats.avg) THEN Val(stats.avg)
                                              ELSE <<0, 1>>,
                            totalReviews |-> stats.count]]
    /\ req' = [req EXCEPT ![p] = Returned("addReview", req[p].args, req[p].review)]
    /\ UNCHANGED <<appointments, reviews, now, sent, calls, paymentMethods>>

----------------------------------------------------------------------------
(* getAvailableSlots (TherapistsService) *)

DayMs == 24 * 60 * 60 * 1000

\* new Date(date).getTime() of a date-only string: midnight UTC of that day
DateMs(date) == date * DayMs

\* new Date(date).getDay() on a server whose clock is UTC: 1970-01-01 was a
\* Thursday
GetDay(date) == (date + 4) % 7

\* the appointments relation the query includes: those of the therapist that
\* start within the date and are PENDING or CONFIRMED
AppointmentsOn(therapistId, date) ==
    SelectSeq(appointments,
              LAMBDA a : /\ a.therapistId = therapistId
                         /\ a.scheduledAt >= DateMs(date)
                         /\ a.scheduledAt < DateMs(date) + DayMs
                         /\ a.status \in {"PENDING", "CONFIRMED"})

\* the availabilities relation the query includes: the active windows
ActiveAvailabilities(therapistId) ==
    SelectSeq(therapists[therapistId].availabilities, LAMBDA a : a.isActive)

\* therapist.availabilities.filter((a) => a.dayOfWeek === dayOfWeek)
DayAvailability(therapistId, date) ==
    SelectSeq(ActiveAvailabilities(therapistId), LAMBDA a : a.dayOfWeek = GetDay(date))

\* the object getAvailableSlots returns: slots maps the day's windows,
\* bookedSlots the appointments; the blocked slots it loaded are not used
AvailableSlots(therapistId, date) ==
    LET dayAvailability == DayAvailability(therapistId, date)
        booked == AppointmentsOn(therapistId, date)
    IN [date |-> date,
        slots |-> [i \in 1..Len(dayAvailability) |->
                     [startTime |-> dayAvailability[i].startTime,
                      endTime |-> dayAvailability[i].endTime]],
        bookedSlots |-> [i \in 1..Len(booked) |->
                           [time |-> booked[i].scheduledAt,
                            duration |-> booked[i].duration]]]

\* getAvailableSlots: one read of the therapist with its relations, then the
\* computation on what was read
GetAvailableSlots(p, therapistId, date) ==
    /\ req[p].pc = "idle"
    /\ LET args == [therapistId |-> therapistId, date |-> date]
       IN req' = [req EXCEPT ![p] =
            IF therapistId \notin DOMAIN therapists
            THEN Threw("getAvailableSlots", args, "NotFoundException")
            ELSE Returned("getAvailableSlots", args, AvailableSlots(therapistId, date))]
    /\ UNCHANGED <<appointments, reviews, therapists, now, sent, calls, paymentMethods>>

----------------------------------------------------------------------------
(* The service of appointments.service.ts behind the controller's routes:
   create without a notification, and confirm(id, therapistId), to which the
   route PATCH :id/confirm passes the authenticated user's id *)

\* create, the insert, whose row the handler returns
ApiCreateInsert(p) ==
    /\ req[p].pc = "insert"
    /\ appointments' = Append(appointments, NewAppointment(req[p].data))
    /\ req' = [req EXCEPT ![p] =
                 Returned("create", req[p].data,
                          [id |-> Len(appointments) + 1,
                           row |-> NewAppointment(req[p].data)])]
    /\ UNCHANGED <<reviews, therapists, now, sent, calls, paymentMethods>>

\* the checks of confirm(id, therapistId): the second argument is compared
\* with the therapist profile id the appointment stores
ApiConfirmCheck(id, therapistId) ==
    IF ~Exists(id) THEN "NotFoundException"
    ELSE IF appointments[id].therapistId # therapistId THEN "ForbiddenException"
    ELSE IF appointments[id].status # "PENDING" THEN "BadRequestException"
    ELSE "ok"

\* PATCH :id/confirm: confirm(id, req.user.id), the read and the checks
ApiConfirmFind(p, id, userId) ==
    /\ req[p].pc = "idle"
    /\ calls' = calls + 1
    /\ LET args == [id |-> id, userId |-> userId]
           check == ApiConfirmCheck(id, userId)
       IN req' = [req EXCEPT ![p] =
            IF check # "ok"
            THEN Threw("confirm", args, check)
            ELSE [pc |-> "apiUpdateConfirm", op |-> "confirm", args |-> args,
                  data |-> ConfirmData(now)]]
    /\ UNCHANGED <<appointments, reviews, therapists, now, sent, paymentMethods>>

\* confirm, the update, whose result the handler returns
ApiConfirmUpdate(p) ==
    /\ req[p].pc = "apiUpdateConfirm"
    /\ LET id == req[p].args.id
           updatedAppointment == ApplyUpdate(appointments[id], req[p].data)
       IN /\ appointments' = [appointments EXCEPT ![id] = updatedAppointment]
          /\ req' = [req EXCEPT ![p] =
                       Returned("confirm", req[p].args, Updated(id, updatedAppointment))]
    /\ UNCHANGED <<reviews, therapists, now, sent, calls, paymentMethods>>

----------------------------------------------------------------------------
(* The cancel route of the controller *)

\* the route passing isTherapist = true
CancelRouteAsTherapist(p, id, userId, reason) == CancelFind(p, id, userId, reason, TRUE)

\* PATCH :id/cancel: cancel(id, req.user.id, body.reason), isTherapist left
\* to its default, false
CancelRoute(p, id, userId, reason) == CancelFind(p, id, userId, reason, FALSE)

----------------------------------------------------------------------------
(* the notification sender *)

\* the positions at which a handler awaits the notification sender
NotifyPositions == {"notifyCreate", "notifyConfirm", "notifyDecline", "notifyCancel"}

\* the awaited send rejects: no handler wraps the await in a try, so the
\* rejection is the handler's own, after the update it has already stored
SendFails(p) ==
    /\ req[p].pc \in NotifyPositions
    /\ req' = [req EXCEPT ![p] =
                 Threw(req[p].op,
                       IF req[p].pc = "notifyCreate" THEN req[p].data ELSE req[p].args,
                       "SenderError")]
    /\ UNCHANGED <<appointments, reviews, therapists, now, sent, calls, paymentMethods>>

----------------------------------------------------------------------------
(* The specifications *)

\* one step of the service: the clock over the instants I, or a step of a
\* request in a slot of P, of which at most n are received
Step(P, I, n) ==
    \/ Tick(I)
    \/ \E p \in P : Respond(p)
    \/ \E p \in P, data \in CreateData : calls < n /\ CreateFindTherapist(p, data)
    \/ \E p \in P : CreateFindConflict(p)
    \/ \E p \in P : CreateInsert(p)
    \/ \E p \in P : CreateNotify(p)
    \/ \E p \in P, id \in RequestIds, userId \in Users :
          calls < n /\ ConfirmFind(p, id, userId)
    \/ \E p \in P : ConfirmUpdate(p)
    \/ \E p \in P : ConfirmNotify(p)
    \/ \E p \in P, id \in RequestIds, userId \in Users, reason \in OptionalReasons :
          calls < n /\ DeclineFind(p, id, userId, reason)
    \/ \E p \in P : DeclineUpdate(p)
    \/ \E p \in P : DeclineNotify(p)
    \/ \E p \in P, id \in RequestIds, userId \in Users, reason \in Reasons,
          isTherapist \in BOOLEAN :
          calls < n /\ CancelFind(p, id, userId, reason, isTherapist)
    \/ \E p \in P : CancelUpdate(p)
    \/ \E p \in P : CancelNotify(p)
    \/ \E p \in P, id \in RequestIds, userId \in Users, notes \in OptionalSessionNotes :
          calls < n /\ CompleteFind(p, id, userId, notes)
    \/ \E p \in P : CompleteUpdate(p)
    \/ \E p \in P, id \in RequestIds, userId \in Users, rating \in Ratings :
          calls < n /\ AddReviewFind(p, id, userId, rating)
    \/ \E p \in P : AddReviewCreate(p)
    \/ \E p \in P : AddReviewAggregate(p)
    \/ \E p \in P : AddReviewUpdateTherapist(p)

\* requests run concurrently, one per slot
Next == Step(Procs, ConcurrentInstants, MaxConcurrentCalls)

Spec == Init /\ [][Next]_vars

\* requests are handled one at a time
NextSerial == Step(SerialProcs, Instants, MaxCalls)

SpecSerial == Init /\ [][NextSerial]_vars

\* requests are handled one at a time and the notification sender may fail
NextSender ==
    \/ Step(SerialProcs, ConcurrentInstants, MaxCalls)
    \/ \E p \in SerialProcs : SendFails(p)

SpecSender == Init /\ [][NextSender]_vars

\* the k-th of the completed appointments: booked by p1 with therapist t,
\* confirmed and completed by t's user
CompletedAppointment(t, k) ==
    ApplyUpdate(ApplyUpdate(NewAppointment([userId |-> "p1", therapistId |-> t,
                                            scheduledAt |-> k * HourMs, duration |-> 60,
                                            timezone |-> "America/New_York", type |-> Null,
                                            bookingNotes |-> Null, amount |-> 15000]),
                            ConfirmData(0)),
                CompleteData(Null, 0))

\* the store after the appointments of CompletedTherapists have been booked,
\* confirmed and completed, before any review
InitReviews ==
    /\ appointments = [k \in 1..Len(CompletedTherapists) |->
                         CompletedAppointment(CompletedTherapists[k], k)]
    /\ reviews = <<>>
    /\ therapists = [t \in TherapistIds |-> [averageRating |-> <<0, 1>>, totalReviews |-> 0]]
    /\ now = 0
    /\ req = [p \in Procs |-> Idle]
    /\ sent = SetToBag({Notification("BOOKING_REQUEST",
                                     TherapistUserId(CompletedTherapists[k]), k) :
                           k \in 1..Len(CompletedTherapists)}
                       \cup {Notification("BOOKING_CONFIRMED", "p1", k) :
                               k \in 1..Len(CompletedTherapists)})
    /\ calls = 0
    /\ paymentMethods = <<>>

\* one step of the service while only reviews are submitted: a step of an
\* addReview in a slot of P, of which at most n are received
StepReviews(P, n) ==
    \/ \E p \in P : Respond(p)
    \/ \E p \in P, id \in 1..(Len(appointments) + 1), userId \in ReviewCallers,
          rating \in ReviewRatings :
          calls < n /\ AddReviewFind(p, id, userId, rating)
    \/ \E p \in P : AddReviewCreate(p)
    \/ \E p \in P : AddReviewAggregate(p)
    \/ \E p \in P : AddReviewUpdateTherapist(p)

\* reviews are submitted one at a time
NextReviews == StepReviews(SerialProcs, MaxReviewCalls)

SpecReviews == InitReviews /\ [][NextReviews]_vars

\* reviews are submitted concurrently, one request per slot
NextReviewsConcurrent == StepReviews(Procs, MaxConcurrentReviewCalls)

SpecReviewsConcurrent == InitReviews /\ [][NextReviewsConcurrent]_vars

\* sequences over S of at most n elements
SeqsUpTo(S, n) == UNION {[1..k -> S] : k \in 0..n}

\* an appointment of therapist t at start with this status, booked by p1
StoredAppointment(t, start, status) ==
    LET row == NewAppointment([userId |-> "p1", therapistId |-> t,
                               scheduledAt |-> start, duration |-> 60,
                               timezone |-> "America/New_York", type |-> Null,
                               bookingNotes |-> Null, amount |-> 15000])
    IN IF status = "CANCELLED" THEN ApplyUpdate(row, CancelData("Emergency", 0)) ELSE row

\* a store a slot query may find: t1 with some windows and blocked slots, and
\* at most one appointment, PENDING or cancelled
InitSlots ==
    /\ \E av \in SeqsUpTo(Windows, MaxWindows), bl \in SUBSET BlockedSlots :
           therapists = [t \in TherapistIds |->
                           [averageRating |-> <<0, 1>>, totalReviews |-> 0,
                            availabilities |-> IF t = "t1" THEN av ELSE <<>>,
                            blockedSlots |-> IF t = "t1" THEN bl ELSE {}]]
    /\ appointments \in
           {<<>>} \cup {<<StoredAppointment(t, start, status)>> :
                          t \in TherapistIds, start \in BookedStarts,
                          status \in {"PENDING", "CANCELLED"}}
    /\ reviews = <<>>
    /\ now = 0
    /\ req = [p \in Procs |-> Idle]
    /\ sent = EmptyBag
    /\ calls = 0
    /\ paymentMethods = <<>>

\* slot queries, one at a time
NextSlots ==
    \/ \E p \in SerialProcs : Respond(p)
    \/ \E p \in SerialProcs, therapistId \in TherapistIds \cup {UnknownTherapistId},
          date \in Dates :
          GetAvailableSlots(p, therapistId, date)

SpecSlots == InitSlots /\ [][NextSlots]_vars

\* booking requests only, one at a time
NextBooking ==
    \/ \E p \in SerialProcs : Respond(p)
    \/ \E p \in SerialProcs, data \in BookingData :
          calls < MaxCalls /\ CreateFindTherapist(p, data)
    \/ \E p \in SerialProcs : CreateFindConflict(p)
    \/ \E p \in SerialProcs : CreateInsert(p)
    \/ \E p \in SerialProcs : CreateNotify(p)

SpecBooking == Init /\ [][NextBooking]_vars

\* booking requests for sessions close to each other, one at a time
NextOverlap ==
    \/ \E p \in SerialProcs : Respond(p)
    \/ \E p \in SerialProcs, data \in OverlapData :
          calls < MaxCalls /\ CreateFindTherapist(p, data)
    \/ \E p \in SerialProcs : CreateFindConflict(p)
    \/ \E p \in SerialProcs : CreateInsert(p)
    \/ \E p \in SerialProcs : CreateNotify(p)

SpecOverlap == Init /\ [][NextOverlap]_vars

\* callers of the confirm route: the accounts, and a caller whose user id is
\* the profile id of a therapist
ApiCallers == Users \cup TherapistIds

\* the routes of the controller over the service of appointments.service.ts,
\* one request at a time
NextApi ==
    \/ \E p \in SerialProcs : Respond(p)
    \/ \E p \in SerialProcs, data \in CreateData :
          calls < MaxCalls /\ CreateFindTherapist(p, data)
    \/ \E p \in SerialProcs : CreateFindConflict(p)
    \/ \E p \in SerialProcs : ApiCreateInsert(p)
    \/ \E p \in SerialProcs, id \in RequestIds, userId \in ApiCallers :
          calls < MaxCalls /\ ApiConfirmFind(p, id, userId)
    \/ \E p \in SerialProcs : ApiConfirmUpdate(p)

SpecApi == Init /\ [][NextApi]_vars

\* bookings, confirmations and cancellations through the routes of the
\* controller, one request at a time
NextRoutes ==
    \/ Tick(ConcurrentInstants)
    \/ \E p \in SerialProcs : Respond(p)
    \/ \E p \in SerialProcs, data \in CreateData :
          calls < MaxCalls /\ CreateFindTherapist(p, data)
    \/ \E p \in SerialProcs : CreateFindConflict(p)
    \/ \E p \in SerialProcs : CreateInsert(p)
    \/ \E p \in SerialProcs : CreateNotify(p)
    \/ \E p \in SerialProcs, id \in RequestIds, userId \in Users :
          calls < MaxCalls /\ ConfirmFind(p, id, userId)
    \/ \E p \in SerialProcs : ConfirmUpdate(p)
    \/ \E p \in SerialProcs : ConfirmNotify(p)
    \/ \E p \in SerialProcs, id \in RequestIds, userId \in Users, reason \in Reasons :
          calls < MaxCalls /\ CancelRoute(p, id, userId, reason)
    \/ \E p \in SerialProcs : CancelUpdate(p)
    \/ \E p \in SerialProcs : CancelNotify(p)

SpecRoutes == Init /\ [][NextRoutes]_vars

----------------------------------------------------------------------------
(* PaymentsService: the saved payment methods of a user *)

\* the most payment methods a user may save
MaxPaymentMethods == 5

MaxPaymentCalls == 7
MaxConcurrentPaymentCalls == 2

PaymentUsers == {"p1", "p2"}
ConcurrentPaymentUsers == {"p1"}

\* body.isDefault of POST methods: absent, true or false
IsDefaultFlags == {Null, Some(TRUE), Some(FALSE)}
PaymentData == [stripePaymentMethodId : {"pm_1"}, isDefault : IsDefaultFlags]

\* the table: paymentMethods[id] is the row with this id, or Null once the
\* row is deleted; an id is never issued twice and a later id is a later
\* createdAt
PaymentMethodIds == 1..Len(paymentMethods)

\* the ids a request may name: those ever issued and one never issued
PaymentRequestIds == 1..(Len(paymentMethods) + 1)

HasPaymentMethod(id) == id \in PaymentMethodIds /\ IsSet(paymentMethods[id])

\* the rows that match where: {userId}
PaymentMethodsOf(userId) ==
    {id \in PaymentMethodIds : HasPaymentMethod(id) /\ Val(paymentMethods[id]).userId = userId}

SetIsDefault(row, isDefault) == Some([Val(row) EXCEPT !.isDefault = isDefault])

\* prisma.paymentMethod.updateMany({where: {userId}, data: {isDefault: false}})
UnsetDefaults(userId) ==
    [id \in PaymentMethodIds |->
        IF id \in PaymentMethodsOf(userId)
        THEN SetIsDefault(paymentMethods[id], FALSE)
        ELSE paymentMethods[id]]

\* prisma.paymentMethod.update({where: {id}, data: {isDefault: true}})
MakeDefault(id) == [paymentMethods EXCEPT ![id] = SetIsDefault(paymentMethods[id], TRUE)]

\* addPaymentMethod, the count of the user's rows and the limit
AddPaymentMethodCount(p, userId, data) ==
    /\ req[p].pc = "idle"
    /\ calls' = calls + 1
    /\ LET existingCount == Cardinality(PaymentMethodsOf(userId))
           args == [userId |-> userId, data |-> data]
       IN req' = [req EXCEPT ![p] =
            IF existingCount >= MaxPaymentMethods
            THEN Threw("addPaymentMethod", args, "BadRequestException")
            ELSE [pc |-> IF data.isDefault = Some(TRUE) THEN "unsetDefaults" ELSE "createMethod",
                  op |-> "addPaymentMethod", args |-> args,
                  existingCount |-> existingCount]]
    /\ UNCHANGED <<appointments, reviews, therapists, now, sent, paymentMethods>>

\* addPaymentMethod, if (data.isDefault): the other rows are unset
AddPaymentMethodUnset(p) ==
    /\ req[p].pc = "unsetDefaults"
    /\ paymentMethods' = UnsetDefaults(req[p].args.userId)
    /\ req' = [req EXCEPT ![p].pc = "createMethod"]
    /\ UNCHANGED <<appointments, reviews, therapists, now, sent, calls>>

\* addPaymentMethod, the insert: isDefault = existingCount === 0 ||
\* data.isDefault, with the count read before; a flag that is absent or
\* false stores false
AddPaymentMethodCreate(p) ==
    /\ req[p].pc = "createMethod"
    /\ LET isDefault == req[p].existingCount = 0 \/ req[p].args.data.isDefault = Some(TRUE)
           created == [userId |-> req[p].args.userId,
                       stripePaymentMethodId |-> req[p].args.data.stripePaymentMethodId,
                       isDefault |-> isDefault]
       IN /\ paymentMethods' = Append(paymentMethods, Some(created))
          /\ req' = [req EXCEPT ![p] =
                       Returned("addPaymentMethod", req[p].args,
                                [id |-> Len(paymentMethods) + 1, row |-> created])]
    /\ UNCHANGED <<appointments, reviews, therapists, now, sent, calls>>

\* setDefaultPaymentMethod, findFirst({where: {id, userId}}) and the check
SetDefaultFind(p, userId, paymentMethodId) ==
    /\ req[p].pc = "idle"
    /\ calls' = calls + 1
    /\ LET args == [userId |-> userId, id |-> paymentMethodId]
       IN req' = [req EXCEPT ![p] =
            IF paymentMethodId \notin PaymentMethodsOf(userId)
            THEN Threw("setDefaultPaymentMethod", args, "NotFoundException")
            ELSE [pc |-> "unsetForDefault", op |-> "setDefaultPaymentMethod", args |-> args]]
    /\ UNCHANGED <<appointments, reviews, therapists, now, sent, paymentMethods>>

\* setDefaultPaymentMethod, the user's rows are unset
SetDefaultUnset(p) ==
    /\ req[p].pc = "unsetForDefault"
    /\ paymentMethods' = UnsetDefaults(req[p].args.userId)
    /\ req' = [req EXCEPT ![p].pc = "updateDefault"]
    /\ UNCHANGED <<appointments, reviews, therapists, now, sent, calls>>

\* setDefaultPaymentMethod, the update of the row named, which the handler
\* returns; an update of a row that is gone rejects
SetDefaultUpdate(p) ==
    /\ req[p].pc = "updateDefault"
    /\ LET id == req[p].args.id
       IN IF HasPaymentMethod(id)
          THEN /\ paymentMethods' = MakeDefault(id)
               /\ req' = [req EXCEPT ![p] =
                            Returned("setDefaultPaymentMethod", req[p].args,
                                     [id |-> id, row |-> Val(MakeDefault(id)[id])])]
          ELSE /\ req' = [req EXCEPT ![p] =
                            Threw("setDefaultPaymentMethod", req[p].args, "RecordNotFound")]
               /\ UNCHANGED paymentMethods
    /\ UNCHANGED <<appointments, reviews, therapists, now, sent, calls>>

\* deletePaymentMethod, findFirst({where: {id, userId}}) and the check
DeleteFind(p, userId, paymentMethodId) ==
    /\ req[p].pc = "idle"
    /\ calls' = calls + 1
    /\ LET args == [userId |-> userId, id |-> paymentMethodId]
       IN req' = [req EXCEPT ![p] =
            IF paymentMethodId \notin PaymentMethodsOf(userId)
            THEN Threw("deletePaymentMethod", args, "NotFoundException")
            ELSE [pc |-> "deleteMethod", op |-> "deletePaymentMethod", args |-> args,
                  paymentMethod |-> Val(paymentMethods[paymentMethodId])]]
    /\ UNCHANGED <<appointments, reviews, therapists, now, sent, paymentMethods>>

\* deletePaymentMethod, the delete; if (paymentMethod.isDefault) reads the
\* row found, and {success: true} is returned when it was not the default
DeleteDelete(p) ==
    /\ req[p].pc = "deleteMethod"
    /\ LET id == req[p].args.id
       IN IF HasPaymentMethod(id)
          THEN /\ paymentMethods' = [paymentMethods EXCEPT ![id] = Null]
               /\ req' = [req EXCEPT ![p] =
                            IF req[p].paymentMethod.isDefault
                            THEN [req[p] EXCEPT !.pc = "findRemaining"]
                            ELSE Returned("deletePaymentMethod", req[p].args, TRUE)]
          ELSE /\ req' = [req EXCEPT ![p] =
                            Threw("deletePaymentMethod", req[p].args, "RecordNotFound")]
               /\ UNCHANGED paymentMethods
    /\ UNCHANGED <<appointments, reviews, therapists, now, sent, calls>>

\* a findFirst ordered by createdAt ascending: the oldest row of the user
DeleteFindRemainingOldest(p) ==
    /\ req[p].pc = "findRemaining"
    /\ LET mine == PaymentMethodsOf(req[p].args.userId)
       IN req' = [req EXCEPT ![p] =
            IF mine = {}
            THEN Returned("deletePaymentMethod", req[p].args, TRUE)
            ELSE [pc |-> "promote", op |-> "deletePaymentMethod", args |-> req[p].args,
                  paymentMethod |-> req[p].paymentMethod,
                  remaining |-> CHOOSE id \in mine : \A other \in mine : other >= id]]
    /\ UNCHANGED <<appointments, reviews, therapists, now, sent, calls, paymentMethods>>

\* deletePaymentMethod, findFirst({where: {userId}, orderBy: {createdAt:
\* 'desc'}}): the newest row the user still has, if any
DeleteFindRemaining(p) ==
    /\ req[p].pc = "findRemaining"
    /\ LET mine == PaymentMethodsOf(req[p].args.userId)
       IN req' = [req EXCEPT ![p] =
            IF mine = {}
            THEN Returned("deletePaymentMethod", req[p].args, TRUE)
            ELSE [pc |-> "promote", op |-> "deletePaymentMethod", args |-> req[p].args,
                  paymentMethod |-> req[p].paymentMethod,
                  remaining |-> CHOOSE id \in mine : \A other \in mine : other <= id]]
    /\ UNCHANGED <<appointments, reviews, therapists, now, sent, calls, paymentMethods>>

\* deletePaymentMethod, the row found becomes the default
DeletePromote(p) ==
    /\ req[p].pc = "promote"
    /\ LET id == req[p].remaining
       IN IF HasPaymentMethod(id)
          THEN /\ paymentMethods' = MakeDefault(id)
               /\ req' = [req EXCEPT ![p] =
                            Returned("deletePaymentMethod", req[p].args, TRUE)]
          ELSE /\ req' = [req EXCEPT ![p] =
                            Threw("deletePaymentMethod", req[p].args, "RecordNotFound")]
               /\ UNCHANGED paymentMethods
    /\ UNCHANGED <<appointments, reviews, therapists, now, sent, calls>>

\* one step of the payments service for a request in a slot of P by a user
\* of U, of which at most n are received
StepPayments(P, U, n) ==
    \/ \E p \in P : Respond(p)
    \/ \E p \in P, userId \in U, data \in PaymentData :
          calls < n /\ AddPaymentMethodCount(p, userId, data)
    \/ \E p \in P : AddPaymentMethodUnset(p)
    \/ \E p \in P : AddPaymentMethodCreate(p)
    \/ \E p \in P, userId \in U, id \in PaymentRequestIds :
          calls < n /\ SetDefaultFind(p, userId, id)
    \/ \E p \in P : SetDefaultUnset(p)
    \/ \E p \in P : SetDefaultUpdate(p)
    \/ \E p \in P, userId \in U, id \in PaymentRequestIds :
          calls < n /\ DeleteFind(p, userId, id)
    \/ \E p \in P : DeleteDelete(p)
    \/ \E p \in P : DeleteFindRemaining(p)
    \/ \E p \in P : DeletePromote(p)

\* the requests of the payment method routes, one at a time
NextPayments == StepPayments(SerialProcs, PaymentUsers, MaxPaymentCalls)

SpecPayments == Init /\ [][NextPayments]_vars

\* a user one payment method short of the limit: the first card added, the
\* default, and the cards added after it without the flag
InitPaymentsConcurrent ==
    /\ appointments = <<>>
    /\ reviews = <<>>
    /\ therapists = [t \in TherapistIds |-> [averageRating |-> <<0, 1>>, totalReviews |-> 0]]
    /\ now = 0
    /\ req = [p \in Procs |-> Idle]
    /\ sent = EmptyBag
    /\ calls = 0
    /\ paymentMethods = [id \in 1..(MaxPaymentMethods - 1) |->
                            Some([userId |-> "p1", stripePaymentMethodId |-> "pm_1",
                                  isDefault |-> id = 1])]

\* requests of the payment method routes in flight together
NextPaymentsConcurrent == StepPayments(Procs, ConcurrentPaymentUsers, MaxConcurrentPaymentCalls)

SpecPaymentsConcurrent == InitPaymentsConcurrent /\ [][NextPaymentsConcurrent]_vars

----------------------------------------------------------------------------
(* The claims *)

Stored == 1..Len(appointments)

\* slot p receives a request for op in this step
Receives(p, op) ==
    /\ req[p].pc = "idle"
    /\ req'[p].pc # "idle"
    /\ req'[p].op = op

\* slot p leaves position pc in this step
Leaves(p, pc) == req[p].pc = pc /\ req'[p].pc # pc

\* slot p holds the response of op with this outcome
Holds(p, op, outcome) ==
    /\ req[p].pc = "done"
    /\ req[p].op = op
    /\ req[p].outcome = outcome

\* after this step slot p holds a response that is an exception
Fails(p) == req'[p].pc = "done" /\ req'[p].outcome # "ok"

PatientOf(id) == appointments[id].userId
TherapistOf(id) == TherapistUserId(appointments[id].therapistId)

\* C1: no two PENDING or CONFIRMED appointments of one therapist have the
\* same scheduledAt, in every reachable state, concurrent creates included
C1_NoDoubleBooking ==
    \A i, j \in Stored :
        /\ i # j
        /\ appointments[i].status \in ActiveStatuses
        /\ appointments[j].status \in ActiveStatuses
        /\ appointments[i].therapistId = appointments[j].therapistId
        => appointments[i].scheduledAt # appointments[j].scheduledAt

\* C2: once an appointment is COMPLETED, CANCELLED or NO_SHOW, every later
\* confirm, decline, cancel or complete on it fails and its status never
\* changes again
C2_TerminalIsFinal ==
    [][/\ \A id \in Stored :
             appointments[id].status \in TerminalStatuses
             => appointments'[id].status = appointments[id].status
       /\ \A p \in Procs, op \in {"confirm", "decline", "cancel", "complete"} :
             /\ Receives(p, op)
             /\ Exists(req'[p].args.id)
             /\ appointments[req'[p].args.id].status \in TerminalStatuses
             => Fails(p)]_vars

\* C3: an update of confirm, decline or cancel takes effect only if the
\* status is still the one the request read, and an appointment is never
\* CONFIRMED after a cancel or decline on it has succeeded
C3_CompareAndSwap ==
    [][/\ \A p \in Procs, pc \in {"updateConfirm", "updateDecline", "updateCancel"} :
             /\ Leaves(p, pc)
             /\ appointments[req[p].args.id].status # req[p].appointment.status
             => appointments' = appointments
       /\ \A id \in Stored :
             appointments[id].status = "CANCELLED"
             => appointments'[id].status # "CONFIRMED"]_vars

\* C4: complete succeeds only when the status is CONFIRMED; by the therapist
\* of record on a PENDING appointment it fails with an invalid-state error,
\* the status stays PENDING and completedAt stays unset
C4_CompleteOnlyConfirmed ==
    [][\A p \in Procs :
         /\ /\ Receives(p, "complete")
            /\ Exists(req'[p].args.id)
            /\ req'[p].args.userId = TherapistOf(req'[p].args.id)
            /\ appointments[req'[p].args.id].status = "PENDING"
            => /\ req'[p].pc = "done"
               /\ req'[p].outcome = "BadRequestException"
         /\ Leaves(p, "updateComplete")
            => appointments[req[p].args.id].status = "CONFIRMED"]_vars

\* C5: confirm by the therapist of record succeeds exactly when the status is
\* PENDING, and then sets status CONFIRMED and confirmedAt; on any other
\* status it fails with an invalid-state error and leaves the record unchanged
C5_ConfirmByTherapist ==
    [][\A p \in Procs :
         /\ /\ Receives(p, "confirm")
            /\ Exists(req'[p].args.id)
            /\ req'[p].args.userId = TherapistOf(req'[p].args.id)
            => IF appointments[req'[p].args.id].status = "PENDING"
               THEN req'[p].pc = "updateConfirm"
               ELSE /\ req'[p].pc = "done"
                    /\ req'[p].outcome = "BadRequestException"
                    /\ appointments' = appointments
         /\ Leaves(p, "updateConfirm")
            => /\ appointments'[req[p].args.id].status = "CONFIRMED"
               /\ IsSet(appointments'[req[p].args.id].confirmedAt)
               /\ Val(appointments'[req[p].args.id].confirmedAt) <= now
               /\ \A id \in Stored \ {req[p].args.id} : appointments'[id] = appointments[id]
         /\ Leaves(p, "notifyConfirm")
            => /\ req'[p].pc = "done"
               /\ req'[p].outcome = "ok"
               /\ appointments'[req[p].args.id].status = "CONFIRMED"
               /\ IsSet(appointments'[req[p].args.id].confirmedAt)]_vars

\* a second confirm by the therapist of record is rejected on an appointment
\* that a first confirm has confirmed
C5_Witness ==
    \E p \in SerialProcs :
        /\ Holds(p, "confirm", "BadRequestException")
        /\ req[p].args.userId = TherapistOf(req[p].args.id)
        /\ appointments[req[p].args.id].status = "CONFIRMED"
        /\ IsSet(appointments[req[p].args.id].confirmedAt)

\* C6: when confirm, decline, cancel, complete or addReview returns not found,
\* forbidden or invalid state, it fails in its first step, and no appointment,
\* no review and no therapist aggregate differs from before the call
C6_RejectedCallWritesNothing ==
    [][\A p \in Procs :
         /\ req[p].pc # "done"
         /\ req'[p].pc = "done"
         /\ req'[p].op \in {"confirm", "decline", "cancel", "complete", "addReview"}
         /\ req'[p].outcome \in
               {"NotFoundException", "ForbiddenException", "BadRequestException"}
         => /\ req[p].pc = "idle"
            /\ appointments' = appointments
            /\ reviews' = reviews
            /\ therapists' = therapists]_vars

\* a confirm rejected for the state of an appointment with a stored review
C6_Witness ==
    \E p \in SerialProcs :
        /\ Holds(p, "confirm", "BadRequestException")
        /\ ReviewExistsFor(req[p].args.id)
        /\ therapists[appointments[req[p].args.id].therapistId].totalReviews = 1

\* C7: a caller who is not the therapist of record cannot confirm, decline or
\* complete; one who is not the patient of record cannot add a review; one who
\* is neither cannot cancel: each such call fails with Forbidden
C7_Forbidden ==
    [][\A p \in Procs :
         /\ \A op \in {"confirm", "decline", "complete"} :
               /\ Receives(p, op)
               /\ Exists(req'[p].args.id)
               /\ req'[p].args.userId # TherapistOf(req'[p].args.id)
               => req'[p].pc = "done" /\ req'[p].outcome = "ForbiddenException"
         /\ /\ Receives(p, "addReview")
            /\ Exists(req'[p].args.id)
            /\ req'[p].args.userId # PatientOf(req'[p].args.id)
            => req'[p].pc = "done" /\ req'[p].outcome = "ForbiddenException"
         /\ /\ Receives(p, "cancel")
            /\ Exists(req'[p].args.id)
            /\ req'[p].args.userId # PatientOf(req'[p].args.id)
            /\ req'[p].args.userId # TherapistOf(req'[p].args.id)
            => req'[p].pc = "done" /\ req'[p].outcome = "ForbiddenException"]_vars

\* another therapist's cancel, as a therapist, of a PENDING appointment is
\* forbidden
C7_Witness ==
    \E p \in SerialProcs :
        /\ Holds(p, "cancel", "ForbiddenException")
        /\ req[p].args.isTherapist
        /\ req[p].args.userId # PatientOf(req[p].args.id)
        /\ req[p].args.userId # TherapistOf(req[p].args.id)
        /\ appointments[req[p].args.id].status = "PENDING"

\* the caller of a cancel is the recorded patient, or the recorded therapist
\* cancelling as therapist
CancelByOwner(args) ==
    \/ ~args.isTherapist /\ args.userId = PatientOf(args.id)
    \/ args.isTherapist /\ args.userId = TherapistOf(args.id)

\* C8: cancel by the recorded patient or therapist succeeds exactly when the
\* status is PENDING or CONFIRMED, and then sets status CANCELLED, cancelledAt
\* and the given cancellationReason; from any other status it fails
C8_CancelByOwner ==
    [][\A p \in Procs :
         /\ /\ Receives(p, "cancel")
            /\ Exists(req'[p].args.id)
            /\ CancelByOwner(req'[p].args)
            => IF appointments[req'[p].args.id].status \in {"PENDING", "CONFIRMED"}
               THEN req'[p].pc = "updateCancel"
               ELSE Fails(p) /\ appointments' = appointments
         /\ Leaves(p, "updateCancel")
            => /\ appointments'[req[p].args.id].status = "CANCELLED"
               /\ IsSet(appointments'[req[p].args.id].cancelledAt)
               /\ Val(appointments'[req[p].args.id].cancelledAt) <= now
               /\ appointments'[req[p].args.id].cancellationReason = Some(req[p].args.reason)
         /\ Leaves(p, "notifyCancel")
            => /\ req'[p].pc = "done"
               /\ req'[p].outcome = "ok"
               /\ appointments'[req[p].args.id].status = "CANCELLED"]_vars

\* the recorded therapist has cancelled a CONFIRMED appointment
C8_Witness ==
    \E p \in SerialProcs :
        /\ Holds(p, "cancel", "ok")
        /\ req[p].args.isTherapist
        /\ req[p].args.userId = TherapistOf(req[p].args.id)
        /\ IsSet(appointments[req[p].args.id].confirmedAt)
        /\ appointments[req[p].args.id].status = "CANCELLED"
        /\ appointments[req[p].args.id].cancellationReason = Some(req[p].args.reason)

\* the ms between the time a cancel computed its refund and the start
MsUntilStart(p) == req[p].appointment.scheduledAt - Val(req[p].data.cancelledAt)

\* C9: the refund percentage cancel computes is 100 strictly more than 24
\* hours before the start, 50 at most 24 and strictly more than 2 hours
\* before, 0 at 2 hours or less, a start in the past included
C9_RefundTiers ==
    \A p \in Procs :
        req[p].pc \in {"updateCancel", "notifyCancel"}
        => LET ms == MsUntilStart(p)
               refund == req[p].refundPercentage
           IN /\ ms > 24 * 60 * 60 * 1000 => refund = 100
              /\ ms <= 24 * 60 * 60 * 1000 /\ ms > 2 * 60 * 60 * 1000 => refund = 50
              /\ ms <= 2 * 60 * 60 * 1000 => refund = 0

\* a cancel exactly 24 hours before the start computes 50
C9_Witness ==
    \E p \in SerialProcs :
        /\ req[p].pc = "updateCancel"
        /\ MsUntilStart(p) = 24 * 60 * 60 * 1000
        /\ req[p].refundPercentage = 50

\* C10: a successful cancel hands the refund percentage it computed back to
\* its caller together with the CANCELLED appointment
C10_RefundReturned ==
    \A p \in Procs :
        Holds(p, "cancel", "ok")
        => LET value == Val(req[p].value)
           IN /\ value.row.status = "CANCELLED"
              /\ "refundPercentage" \in DOMAIN value
              /\ value.refundPercentage =
                    RefundPercentage(value.row.scheduledAt, Val(value.row.cancelledAt))

\* the timestamp columns, each with the operations whose update writes it
TimestampWriters ==
    [confirmedAt |-> {"updateConfirm"},
     completedAt |-> {"updateComplete"},
     cancelledAt |-> {"updateCancel", "updateDecline"}]

\* C11: each of confirmedAt, completedAt and cancelledAt of an appointment is
\* written only by the update of its matching transition, and once it is set
\* no later step writes it again
C11_TimestampsWrittenOnce ==
    [][\A id \in Stored, f \in DOMAIN TimestampWriters :
         /\ appointments'[id][f] # appointments[id][f]
            => \E p \in Procs : req[p].pc \in TimestampWriters[f] /\ req[p].args.id = id
         /\ IsSet(appointments[id][f])
            => /\ appointments'[id][f] = appointments[id][f]
               /\ \A p \in Procs :
                     req[p].pc \in TimestampWriters[f] /\ req[p].args.id = id
                     => req'[p].pc = req[p].pc]_vars

\* C12: whatever the notification sender does, a create, confirm, decline or
\* cancel that has stored its state change returns its success result to the
\* caller, and the stored change remains
C12_SenderFailureSuppressed ==
    [][\A p \in Procs :
         req[p].pc \in NotifyPositions /\ req'[p].pc # req[p].pc
         => /\ req'[p].pc = "done"
            /\ req'[p].outcome = "ok"
            /\ appointments' = appointments]_vars

NotifyingOps == {"create", "confirm", "decline", "cancel"}

\* slot p finishes its request in this step
Finishes(p) == req[p].pc # "done" /\ req'[p].pc = "done"

\* the appointment the request in slot p is about, for a request past its checks
SubjectOf(p) == IF req[p].op = "create" THEN req[p].id ELSE req[p].args.id

\* the notification the claim expects of the request in slot p
ExpectedNotification(p) ==
    LET id == SubjectOf(p)
    IN CASE req[p].op = "create" ->
              [kind |-> "BOOKING_REQUEST", to |-> TherapistOf(id), appointmentId |-> id]
         [] req[p].op = "confirm" ->
              [kind |-> "BOOKING_CONFIRMED", to |-> PatientOf(id), appointmentId |-> id]
         [] req[p].op = "decline" ->
              [kind |-> "BOOKING_DECLINED", to |-> PatientOf(id), appointmentId |-> id]
         [] req[p].op = "cancel" ->
              [kind |-> "APPOINTMENT_CANCELLED",
               to |-> IF req[p].args.userId = TherapistOf(id)
                      THEN PatientOf(id) ELSE TherapistOf(id),
               appointmentId |-> id]

\* the status the request in slot p has stored when it succeeds
StoredStatus(p) ==
    CASE req[p].op = "create" -> "PENDING"
      [] req[p].op = "confirm" -> "CONFIRMED"
      [] req[p].op \in {"decline", "cancel"} -> "CANCELLED"

\* C13: a create, confirm, decline or cancel that succeeds hands exactly one
\* notification to the sender, in its last step, with its state change already
\* stored, addressed to the therapist's user (create), the patient (confirm,
\* decline) or the other party (cancel); a rejected call sends none, and
\* nothing else sends
C13_OneNotificationPerSuccess ==
    [][/\ \A p \in Procs :
             Finishes(p) /\ req'[p].op \in NotifyingOps
             => IF req'[p].outcome = "ok"
                THEN /\ sent' = sent (+) SetToBag({ExpectedNotification(p)})
                     /\ Exists(SubjectOf(p))
                     /\ appointments[SubjectOf(p)].status = StoredStatus(p)
                     /\ appointments' = appointments
                ELSE sent' = sent
       /\ sent' # sent
          => \E p \in Procs :
                 /\ Finishes(p)
                 /\ req'[p].op \in NotifyingOps
                 /\ req'[p].outcome = "ok"]_vars

\* the patient has cancelled an appointment: the booking request and the
\* cancellation, both to the therapist's user, are all that was sent
C13_Witness ==
    \E p \in SerialProcs :
        /\ Holds(p, "cancel", "ok")
        /\ req[p].args.userId = PatientOf(req[p].args.id)
        /\ sent = SetToBag({[kind |-> "BOOKING_REQUEST",
                             to |-> TherapistOf(req[p].args.id),
                             appointmentId |-> req[p].args.id],
                            [kind |-> "APPOINTMENT_CANCELLED",
                             to |-> TherapistOf(req[p].args.id),
                             appointmentId |-> req[p].args.id]})

\* C14: no appointment ever has two reviews, and an addReview by the patient
\* for an appointment that already has a review fails with Conflict, storing
\* no review and leaving the therapist's averageRating and totalReviews alone
C14_OneReviewPerAppointment ==
    [][/\ \A i, j \in 1..Len(reviews') :
             reviews'[i].appointmentId = reviews'[j].appointmentId => i = j
       /\ \A p \in Procs :
             Leaves(p, "createReview") /\ ReviewExistsFor(req[p].args.id)
             => /\ req'[p].pc = "done"
                /\ req'[p].outcome = "ConflictException"
                /\ reviews' = reviews
                /\ therapists' = therapists]_vars

\* C15: an addReview passes its checks only on a COMPLETED appointment and
\* from its recorded patient; on a PENDING, CONFIRMED or CANCELLED appointment
\* it fails; a review is stored only by such a request, for that appointment,
\* and an addReview that returns a review has stored it
C15_ReviewOnlyCompleted ==
    [][/\ \A p \in Procs :
             /\ /\ Receives(p, "addReview")
                /\ Exists(req'[p].args.id)
                /\ \/ appointments[req'[p].args.id].status # "COMPLETED"
                   \/ req'[p].args.userId # PatientOf(req'[p].args.id)
                => Fails(p) /\ reviews' = reviews
             /\ Finishes(p) /\ req'[p].op = "addReview" /\ req'[p].outcome = "ok"
                => /\ appointments[req[p].args.id].status = "COMPLETED"
                   /\ req[p].args.userId = PatientOf(req[p].args.id)
                   /\ \E i \in 1..Len(reviews) : reviews[i] = Val(req'[p].value)
       /\ reviews' # reviews
          => \E p \in Procs :
                 /\ Leaves(p, "createReview")
                 /\ appointments[req[p].args.id].status = "COMPLETED"
                 /\ req[p].args.userId = PatientOf(req[p].args.id)
                 /\ reviews' = Append(reviews,
                                      [userId |-> req[p].args.userId,
                                       therapistId |-> appointments[req[p].args.id].therapistId,
                                       appointmentId |-> req[p].args.id,
                                       rating |-> req[p].args.rating])]_vars

\* the patient's review of an appointment they had cancelled is rejected, and
\* no review is stored
C15_Witness ==
    \E p \in SerialProcs :
        /\ Holds(p, "addReview", "BadRequestException")
        /\ req[p].args.userId = PatientOf(req[p].args.id)
        /\ appointments[req[p].args.id].status = "CANCELLED"
        /\ reviews = <<>>

\* the ratings of the stored reviews of therapist t, in the order stored
RECURSIVE RatingsFrom(_, _)
RatingsFrom(t, i) ==
    IF i > Len(reviews) THEN <<>>
    ELSE IF reviews[i].therapistId = t THEN <<reviews[i].rating>> \o RatingsFrom(t, i + 1)
    ELSE RatingsFrom(t, i + 1)

RatingsOf(t) == RatingsFrom(t, 1)

RECURSIVE SeqSum(_)
SeqSum(q) == IF q = <<>> THEN 0 ELSE Head(q) + SeqSum(Tail(q))

\* the aggregates stats are the count and the arithmetic mean of ratings q
\* (the mean n/d as a fraction: n * Len(q) = sum * d; 0 over no ratings)
CountAndMean(stats, q) ==
    /\ stats.totalReviews = Len(q)
    /\ stats.averageRating[2] > 0
    /\ stats.averageRating[1] * Len(q) = SeqSum(q) * stats.averageRating[2]
    /\ q = <<>> => stats.averageRating[1] = 0

\* C16: with requests handled one at a time, the last step of an addReview
\* leaves its therapist's totalReviews equal to the number of stored reviews
\* of that therapist and averageRating equal to the mean of their ratings
\* (ratings 5, 3, 4 give 4 and 3; with a further 1 they give 13/4 and 4), and
\* leaves every other therapist's aggregates as they were
C16_AggregatesRecomputed ==
    [][\A p \in Procs :
         Leaves(p, "updateTherapist")
         => LET t == req[p].therapistId
                q == RatingsOf(t)
            IN /\ req'[p].pc = "done" /\ req'[p].outcome = "ok"
               /\ CountAndMean(therapists'[t], q)
               /\ \A u \in TherapistIds \ {t} : therapists'[u] = therapists[u]
               /\ q = <<5, 3, 4>>
                  => therapists'[t] = [averageRating |-> <<4, 1>>, totalReviews |-> 3]
               /\ q = <<5, 3, 4, 1>>
                  => therapists'[t] = [averageRating |-> <<13, 4>>, totalReviews |-> 4]]_vars

\* a review rated 1 has been added to reviews rated 5, 3 and 4 of one
\* therapist: the average is 3.25 over 4 reviews
C16_Witness ==
    \E p \in SerialProcs :
        /\ Holds(p, "addReview", "ok")
        /\ req[p].args.rating = 1
        /\ RatingsOf("t1") = <<5, 3, 4, 1>>
        /\ therapists["t1"] = [averageRating |-> <<13, 4>>, totalReviews |-> 4]

\* no addReview is in flight
ReviewsQuiescent == \A p \in Procs : req[p].pc \in {"idle", "done"}

\* C17: when addReview requests run concurrently, once all of them have
\* finished every therapist's totalReviews and averageRating are the count and
\* the mean of the stored reviews of that therapist
C17_ConcurrentAggregates ==
    ReviewsQuiescent
    => \A t \in TherapistIds : CountAndMean(therapists[t], RatingsOf(t))

\* the window starts at the start of a PENDING or CONFIRMED appointment of
\* the therapist on the date
BookedAt(therapistId, date, window) ==
    \E i \in Stored :
        /\ appointments[i].therapistId = therapistId
        /\ appointments[i].status \in ActiveStatuses
        /\ appointments[i].scheduledAt = date * 24 * HourMs + window.startTime * HourMs

\* a blocked slot of the therapist covers the window on the date
BlockedAt(therapistId, date, window) ==
    \E b \in therapists[therapistId].blockedSlots :
        /\ b.startAt <= date * 24 * HourMs + window.startTime * HourMs
        /\ b.endAt >= date * 24 * HourMs + window.endTime * HourMs

\* the free windows of the claim: active, of the date's day of week, not
\* blocked and not starting at a booked appointment
FreeWindows(therapistId, date) ==
    SelectSeq(therapists[therapistId].availabilities,
              LAMBDA a : /\ a.isActive
                         /\ a.dayOfWeek = (date + 4) % 7
                         /\ ~BlockedAt(therapistId, date, a)
                         /\ ~BookedAt(therapistId, date, a))

\* C18: for a known therapist getAvailableSlots returns, as slots, exactly the
\* active windows of the date's day of week that no blocked slot covers and
\* that do not start at a PENDING or CONFIRMED appointment of the therapist
\* (an empty list when there is none), and it never fails
C18_FreeSlots ==
    \A p \in Procs :
        /\ req[p].pc = "done"
        /\ req[p].op = "getAvailableSlots"
        /\ req[p].args.therapistId \in DOMAIN therapists
        => /\ req[p].outcome = "ok"
           /\ LET free == FreeWindows(req[p].args.therapistId, req[p].args.date)
              IN Val(req[p].value).slots =
                     [i \in 1..Len(free) |->
                        [startTime |-> free[i].startTime, endTime |-> free[i].endTime]]

\* the data of the create in record r of a slot
CreateDataOf(r) == IF r.pc = "done" THEN r.args ELSE r.data

\* an active appointment of the therapist of data starts at data's scheduledAt
SlotTaken(data) ==
    \E i \in Stored :
        /\ appointments[i].therapistId = data.therapistId
        /\ appointments[i].scheduledAt = data.scheduledAt
        /\ appointments[i].status \in ActiveStatuses

\* in this step a create for an unknown therapist fails with NotFound and a
\* create whose lookup finds the slot taken fails with conflictError, and
\* neither stores an appointment nor sends a notification
CreateRejects(conflictError) ==
    \A p \in Procs :
        /\ Receives(p, "create") /\ CreateDataOf(req'[p]).therapistId \notin TherapistIds
           => /\ req'[p].pc = "done"
              /\ req'[p].outcome = "NotFoundException"
              /\ appointments' = appointments
              /\ sent' = sent
        /\ Leaves(p, "findConflict") /\ SlotTaken(req[p].data)
           => /\ req'[p].pc = "done"
              /\ req'[p].outcome = conflictError
              /\ appointments' = appointments
              /\ sent' = sent

C20_CreateStoresPending ==
    [][/\ \A p \in Procs :
             /\ Leaves(p, "findConflict") /\ ~SlotTaken(req[p].data)
                => req'[p].pc = "insert" /\ req'[p].data = req[p].data
             /\ Leaves(p, "insert")
                => LET data == req[p].data
                       n == Len(appointments)
                   IN /\ Len(appointments') = n + 1
                      /\ \A i \in 1..n : appointments'[i] = appointments[i]
                      /\ appointments'[n + 1].status = "PENDING"
                      /\ appointments'[n + 1].userId = data.userId
                      /\ appointments'[n + 1].therapistId = data.therapistId
                      /\ appointments'[n + 1].scheduledAt = data.scheduledAt
                      /\ appointments'[n + 1].duration = data.duration
                      /\ appointments'[n + 1].timezone = data.timezone
                      /\ appointments'[n + 1].bookingNotes = data.bookingNotes
                      /\ appointments'[n + 1].amount = data.amount
                      /\ appointments'[n + 1].type =
                            (IF data.type = Null THEN "SCHEDULED" ELSE Val(data.type))
                      /\ appointments'[n + 1].confirmedAt = Null
                      /\ appointments'[n + 1].completedAt = Null
                      /\ appointments'[n + 1].cancelledAt = Null
       /\ Len(appointments') # Len(appointments)
          => \E p \in Procs : Leaves(p, "insert")]_vars

\* an INSTANT booking with notes has been stored after a SCHEDULED one
C20_Witness ==
    \E p \in SerialProcs :
        /\ Holds(p, "create", "ok")
        /\ Len(appointments) = 2
        /\ appointments[1].type = "SCHEDULED"
        /\ appointments[2].type = "INSTANT"
        /\ appointments[2].status = "PENDING"
        /\ IsSet(appointments[2].bookingNotes)
        /\ Val(req[p].value).row = appointments[2]

\* the intervals [scheduledAt, scheduledAt + duration) of a and b overlap
Overlapping(a, b) ==
    /\ a.scheduledAt < b.scheduledAt + b.duration * 60 * 1000
    /\ b.scheduledAt < a.scheduledAt + a.duration * 60 * 1000

\* C21: a create for a known therapist succeeds whenever its lookup finds no
\* PENDING or CONFIRMED appointment of that therapist with the same
\* scheduledAt, whether or not its interval overlaps that of another PENDING
\* or CONFIRMED appointment of the therapist: it inserts, notifies and returns
C21_ExactStartOnly ==
    [][\A p \in Procs :
         /\ Leaves(p, "findConflict") /\ ~SlotTaken(req[p].data)
            => req'[p].pc = "insert"
         /\ Leaves(p, "insert")
            => /\ req'[p].pc = "notifyCreate"
               /\ appointments' = Append(appointments, req'[p].appointment)
               /\ req'[p].appointment.scheduledAt = req[p].data.scheduledAt
               /\ req'[p].appointment.status = "PENDING"
         /\ Leaves(p, "notifyCreate")
            => /\ req'[p].pc = "done"
               /\ req'[p].outcome = "ok"
               /\ Val(req'[p].value).row = appointments[req[p].id]]_vars

\* a 30-minute session at 14:15 has been booked with a therapist who has a
\* PENDING 90-minute session at 14:00
C21_Witness ==
    \E p \in SerialProcs :
        /\ Holds(p, "create", "ok")
        /\ Len(appointments) = 2
        /\ appointments[1].therapistId = appointments[2].therapistId
        /\ appointments[1].status = "PENDING" /\ appointments[2].status = "PENDING"
        /\ appointments[1].scheduledAt = 14 * HourMs /\ appointments[1].duration = 90
        /\ appointments[2].scheduledAt = 14 * HourMs + 15 * 60 * 1000
        /\ appointments[2].duration = 30
        /\ Overlapping(appointments[1], appointments[2])

\* C22: decline passes its checks only for the therapist of record and only
\* on a PENDING appointment; its update then sets status CANCELLED, cancelledAt
\* and cancellationReason, the given reason or 'Declined by therapist' when
\* none is given, and it returns; on any other status it fails and the record
\* stays as it was
C22_DeclineByTherapist ==
    [][\A p \in Procs :
         /\ /\ Receives(p, "decline")
            /\ Exists(req'[p].args.id)
            => IF /\ req'[p].args.userId = TherapistOf(req'[p].args.id)
                  /\ appointments[req'[p].args.id].status = "PENDING"
               THEN req'[p].pc = "updateDecline"
               ELSE Fails(p) /\ appointments' = appointments
         /\ Leaves(p, "updateDecline")
            => LET id == req[p].args.id
               IN /\ appointments'[id].status = "CANCELLED"
                  /\ IsSet(appointments'[id].cancelledAt)
                  /\ Val(appointments'[id].cancelledAt) <= now
                  /\ appointments'[id].cancellationReason =
                        (IF req[p].args.reason = Null
                         THEN Some("Declined by therapist")
                         ELSE req[p].args.reason)
                  /\ \A i \in Stored \ {id} : appointments'[i] = appointments[i]
         /\ Leaves(p, "notifyDecline")
            => /\ req'[p].pc = "done"
               /\ req'[p].outcome = "ok"
               /\ appointments'[req[p].args.id].status = "CANCELLED"]_vars

\* the therapist of record has declined a PENDING appointment without giving
\* a reason
C22_Witness ==
    \E p \in SerialProcs :
        /\ Holds(p, "decline", "ok")
        /\ req[p].args.reason = Null
        /\ req[p].args.userId = TherapistOf(req[p].args.id)
        /\ appointments[req[p].args.id].status = "CANCELLED"
        /\ appointments[req[p].args.id].cancellationReason = Some("Declined by therapist")
        /\ IsSet(appointments[req[p].args.id].cancelledAt)

\* the columns of an appointment that only its creation sets
CreationColumns == {"amount", "userId", "therapistId", "scheduledAt", "duration"}

\* C23: no step of confirm, decline, cancel, complete or addReview changes the
\* amount, userId, therapistId, scheduledAt or duration of a stored appointment
C23_CreationColumnsImmutable ==
    [][\A id \in Stored, f \in CreationColumns :
         appointments'[id][f] = appointments[id][f]]_vars

\* an appointment has been confirmed and then completed with session notes,
\* and still carries what it was booked with
C23_Witness ==
    \E p \in SerialProcs :
        /\ Holds(p, "complete", "ok")
        /\ LET a == appointments[req[p].args.id]
           IN /\ IsSet(a.confirmedAt)
              /\ IsSet(a.completedAt)
              /\ IsSet(a.sessionNotes)
              /\ a.amount \in Amounts
              /\ a.duration \in Durations
              /\ a.userId \in Bookers
              /\ a.scheduledAt \in Slots

\* C24: no step removes an appointment: every stored id stays stored, with
\* the appointment it named, and so do the appointments in a terminal status
C24_NeverDeleted ==
    [][/\ Len(appointments') >= Len(appointments)
       /\ \A id \in Stored :
             /\ id \in 1..Len(appointments')
             /\ \A f \in CreationColumns : appointments'[id][f] = appointments[id][f]
             /\ appointments[id].status \in TerminalStatuses
                => appointments'[id].status \in TerminalStatuses]_vars

\* a second appointment has been booked while the first, cancelled, is still
\* stored
C24_Witness ==
    \E p \in SerialProcs :
        /\ Holds(p, "create", "ok")
        /\ Len(appointments) = 2
        /\ appointments[1].status = "CANCELLED"
        /\ IsSet(appointments[1].cancelledAt)
        /\ appointments[2].status = "PENDING"

\* C25: through the confirm route, the therapist of record, identified by
\* their user id, confirms their own PENDING appointment: the call passes the
\* checks, and its update sets status CONFIRMED and returns
C25_ConfirmRoute ==
    [][\A p \in Procs :
         /\ /\ Receives(p, "confirm")
            /\ Exists(req'[p].args.id)
            /\ req'[p].args.userId = TherapistOf(req'[p].args.id)
            /\ appointments[req'[p].args.id].status = "PENDING"
            => req'[p].pc = "apiUpdateConfirm"
         /\ Leaves(p, "apiUpdateConfirm")
            => /\ req'[p].pc = "done"
               /\ req'[p].outcome = "ok"
               /\ appointments'[req[p].args.id].status = "CONFIRMED"]_vars

\* C26: through the cancel route a caller who is not the recorded patient,
\* the appointment's therapist included, gets Forbidden and the appointment
\* stays as it was; only a cancel of the recorded patient reaches its update
C26_CancelRoutePatientOnly ==
    [][\A p \in Procs :
         /\ /\ Receives(p, "cancel")
            /\ Exists(req'[p].args.id)
            /\ req'[p].args.userId # PatientOf(req'[p].args.id)
            => /\ req'[p].pc = "done"
               /\ req'[p].outcome = "ForbiddenException"
               /\ appointments' = appointments
         /\ Leaves(p, "updateCancel")
            => /\ req[p].args.userId = PatientOf(req[p].args.id)
               /\ ~req[p].args.isTherapist]_vars

\* the therapist of record has called the cancel route on their CONFIRMED
\* appointment and got Forbidden
C26_Witness ==
    \E p \in SerialProcs :
        /\ Holds(p, "cancel", "ForbiddenException")
        /\ ~req[p].args.isTherapist
        /\ req[p].args.userId = TherapistOf(req[p].args.id)
        /\ appointments[req[p].args.id].status = "CONFIRMED"
        /\ appointments[req[p].args.id].cancelledAt = Null

\* a stored appointment of the therapist of data at data's scheduledAt is in a
\* terminal status
SlotReleased(data) ==
    \E i \in Stored :
        /\ appointments[i].therapistId = data.therapistId
        /\ appointments[i].scheduledAt = data.scheduledAt
        /\ appointments[i].status \in TerminalStatuses

\* C27: once the appointments of therapist T at start s have left PENDING and
\* CONFIRMED, a create for T and s passes the conflict lookup, inserts and
\* returns; and of the appointments of T that share a scheduledAt at most one
\* is PENDING or CONFIRMED
C27_SlotReusable ==
    [][/\ \A p \in Procs :
             /\ /\ Leaves(p, "findConflict")
                /\ SlotReleased(req[p].data)
                /\ ~SlotTaken(req[p].data)
                => req'[p].pc = "insert"
             /\ Leaves(p, "insert") /\ SlotReleased(req[p].data)
                => /\ req'[p].pc = "notifyCreate"
                   /\ Len(appointments') = Len(appointments) + 1
                   /\ appointments'[Len(appointments')].status = "PENDING"
             /\ Leaves(p, "notifyCreate")
                => req'[p].pc = "done" /\ req'[p].outcome = "ok"
       /\ \A i, j \in 1..Len(appointments') :
             /\ i # j
             /\ appointments'[i].therapistId = appointments'[j].therapistId
             /\ appointments'[i].scheduledAt = appointments'[j].scheduledAt
             => ~ /\ appointments'[i].status \in ActiveStatuses
                  /\ appointments'[j].status \in ActiveStatuses]_vars

\* a start has been booked again after the therapist declined the first
\* booking of it
C27_Witness ==
    \E p \in SerialProcs :
        /\ Holds(p, "create", "ok")
        /\ Len(appointments) = 2
        /\ appointments[1].therapistId = appointments[2].therapistId
        /\ appointments[1].scheduledAt = appointments[2].scheduledAt
        /\ appointments[1].status = "CANCELLED"
        /\ appointments[1].cancellationReason = Some("Declined by therapist")
        /\ appointments[2].status = "PENDING"

\* C28: the status of every stored appointment is PENDING, CONFIRMED,
\* COMPLETED or CANCELLED, never NO_SHOW
C28_NeverNoShow ==
    \A id \in Stored :
        appointments[id].status \in {"PENDING", "CONFIRMED", "COMPLETED", "CANCELLED"}

\* one appointment has been cancelled and another completed without session
\* notes
C28_Witness ==
    \E p \in SerialProcs :
        /\ Holds(p, "complete", "ok")
        /\ req[p].args.sessionNotes = Null
        /\ appointments[req[p].args.id].status = "COMPLETED"
        /\ \E id \in Stored : appointments[id].status = "CANCELLED"

\* the payment methods of a user that are flagged as the default
Defaults(userId) ==
    {id \in PaymentMethodsOf(userId) : Val(paymentMethods[id]).isDefault}

\* the payment method of a user created last
Newest(userId) ==
    CHOOSE id \in PaymentMethodsOf(userId) : \A other \in PaymentMethodsOf(userId) : other <= id

\* slot p returns the value of op in this step
Completes(p, op) ==
    /\ Finishes(p)
    /\ req'[p].op = op
    /\ req'[p].outcome = "ok"

\* C29: with the payment method requests handled one at a time, whenever no
\* request is in progress every user who has a payment method has exactly
\* one default: an add returns with the new card as the only default when
\* it is the user's first or is added as the default, and with the default
\* unchanged otherwise; a setDefault returns with the card named as the only
\* default; a delete of the default returns with the newest remaining card
\* as the default, and any other delete with the default unchanged
C29_ExactlyOneDefault ==
    [][(\A p \in SerialProcs : req'[p].pc \in {"idle", "done"}) =>
         /\ \A u \in PaymentUsers :
               PaymentMethodsOf(u)' # {} => Cardinality(Defaults(u)') = 1
         /\ \A p \in SerialProcs :
               /\ Completes(p, "addPaymentMethod") =>
                     LET u == req[p].args.userId
                     IN IF req[p].existingCount = 0 \/ req[p].args.data.isDefault = Some(TRUE)
                        THEN Defaults(u)' = {Len(paymentMethods')}
                        ELSE Defaults(u)' = Defaults(u)
               /\ Completes(p, "setDefaultPaymentMethod") =>
                     Defaults(req[p].args.userId)' = {req[p].args.id}
               /\ Completes(p, "deletePaymentMethod") =>
                     LET u == req[p].args.userId
                     IN /\ ~HasPaymentMethod(req[p].args.id)'
                        /\ IF ~req[p].paymentMethod.isDefault
                           THEN Defaults(u)' = Defaults(u)
                           ELSE PaymentMethodsOf(u)' # {} => Defaults(u)' = {Newest(u)'}]_vars

\* a user has deleted a card and is left with at least two, the newest of
\* which is the default and not the first card ever added, while another
\* user has cards of their own
C29_Witness ==
    \E p \in SerialProcs :
        /\ Holds(p, "deletePaymentMethod", "ok")
        /\ ~HasPaymentMethod(req[p].args.id)
        /\ Cardinality(PaymentMethodsOf(req[p].args.userId)) >= 2
        /\ Defaults(req[p].args.userId) = {Newest(req[p].args.userId)}
        /\ \E other \in PaymentUsers \ {req[p].args.userId} :
              Cardinality(PaymentMethodsOf(other)) >= 2

\* C30: no user ever has more than 5 stored payment methods, with the adds
\* of one user in flight together; an add received when the user has 5
\* fails with the BadRequestException 'Maximum 5 payment methods allowed'
\* and leaves the table as it is
C30_AtMostFive ==
    [][/\ \A u \in ConcurrentPaymentUsers :
             Cardinality(PaymentMethodsOf(u)') <= MaxPaymentMethods
       /\ \A p \in Procs :
             (/\ Receives(p, "addPaymentMethod")
              /\ Cardinality(PaymentMethodsOf(req'[p].args.userId)) >= MaxPaymentMethods)
             => /\ req'[p].pc = "done"
                /\ req'[p].outcome = "BadRequestException"
                /\ paymentMethods' = paymentMethods]_vars

====
